---- MODULE Spec2Model ----
(***************************************************************************)
(* Model of the btctrd ledger reconciliation of src/transactions.py:       *)
(* get_transactions_from_btctrd and prepare_transaction_doc.               *)
(*                                                                         *)
(* A ledger row is a record [dttm, act, coin, value].  dttm is an integer  *)
(* instant (the source compares 'YYYY-MM-DD HH:MM:SS' strings, whose order *)
(* is the chronological one).  value is a signed integer counted in the    *)
(* minor unit of the row's currency: 1e-8 of a coin, 1e-2 of the fiat R$.  *)
(* Quotients of floats are kept as exact reduced fractions <<num, den>>.   *)
(***************************************************************************)
EXTENDS Integers, Sequences, FiniteSets, TLC

VARIABLES btctrd_rows_raw, input_rows, data_rows, ind, curr_trans, all_trans,
          final_transacs, pc, err, open_rows, hist

vars == <<btctrd_rows_raw, input_rows, data_rows, ind, curr_trans, all_trans,
          final_transacs, pc, err, open_rows, hist>>

(***************************************************************************)
(* Bounds of the checked input family.                                     *)
(***************************************************************************)
MaxLen == 3

MaxTime == 2

\* longest csv file (data rows) of the pipeline
MaxRaw == 4

(***************************************************************************)
(* Program constants.                                                      *)
(***************************************************************************)
\* val_tol: float = 9e-08, in units of 1e-8
val_tol == 9

Fiat == "R$"

Acts == {"buy", "buying_fee", "deposit", "sell", "withdraw", "withdrawal_fee"}

\* the value of a key never written: collections.defaultdict(float)
NoCoin == "0.0"

(***************************************************************************)
(* Arithmetic helpers.                                                     *)
(***************************************************************************)
Abs(x) == IF x < 0 THEN -x ELSE x

RECURSIVE Gcd(_, _)
Gcd(a, b) == IF b = 0 THEN a ELSE Gcd(b, a % b)

\* the exact fraction n/d (d # 0), reduced
Frac(n, d) == LET g == Gcd(Abs(n), Abs(d)) IN <<n \div g, d \div g>>

\* x * (n/d), reduced without forming the product x * n first
FracTimes(x, q) ==
    LET g == Gcd(Abs(x), q[2]) IN Frac((x \div g) * q[1], q[2] \div g)

ZeroFrac == <<0, 1>>

(***************************************************************************)
(* The sort of line 112: sorted(key=(dttm, act, coin)), a stable sort.     *)
(* Strings compare as in Python: 'buy' < 'buying_fee' < 'deposit' < 'sell' *)
(* < 'withdraw' < 'withdrawal_fee' and 'BTC' < 'ETH' < 'R$'.               *)
(***************************************************************************)
ActRank(a) ==
    CASE a = "buy" -> 1
      [] a = "buying_fee" -> 2
      [] a = "deposit" -> 3
      [] a = "sell" -> 4
      [] a = "withdraw" -> 5
      [] a = "withdrawal_fee" -> 6

CoinRank(c) ==
    CASE c = "BTC" -> 1
      [] c = "ETH" -> 2
      [] c = "R$" -> 3

SortKey(x) == <<x.dttm, ActRank(x.act), CoinRank(x.coin)>>

\* the key of line 112 cut down to the timestamp
KeyLess_DttmOnly(k1, k2) == k1[1] < k2[1]

KeyLess(k1, k2) ==
    \/ k1[1] < k2[1]
    \/ k1[1] = k2[1] /\ k1[2] < k2[2]
    \/ k1[1] = k2[1] /\ k1[2] = k2[2] /\ k1[3] < k2[3]

KeyLeq(k1, k2) == ~KeyLess(k2, k1)

\* x goes after every element whose key is not greater: the sort is stable
RECURSIVE InsertRow(_, _)
InsertRow(s, x) ==
    IF s = <<>> THEN <<x>>
    ELSE IF KeyLeq(SortKey(s[Len(s)]), SortKey(x)) THEN Append(s, x)
    ELSE Append(InsertRow(SubSeq(s, 1, Len(s) - 1), x), s[Len(s)])

RECURSIVE sorted(_)
sorted_None(s) == s

sorted(s) ==
    IF s = <<>> THEN <<>>
    ELSE InsertRow(sorted(SubSeq(s, 1, Len(s) - 1)), s[Len(s)])

(***************************************************************************)
(* The loop body of get_transactions_from_btctrd, lines 117-175.           *)
(***************************************************************************)
\* curr_trans = collections.defaultdict(float): every key reads as 0.0
EmptyTransaction ==
    [coin |-> NoCoin, value |-> 0, paid_value |-> 0, buying_fee |-> 0,
     n_coin |-> 0, n_fiat |-> 0,
     next_withdrawal |-> 0, next_withdrawal_fee |-> 0,
     dttm |-> 0, withd |-> ZeroFrac]

\* line 122 as a skip list that forgets the withdrawal categories
IsPurchase_SkipList(row) == row.act \notin {"deposit", "sell"}

\* line 122 as row['act'] == 'buy'
IsPurchase_BuyOnly(row) == row.act = "buy"

\* line 122: row['act'].startswith('buy')
IsPurchase(row) == row.act \in {"buy", "buying_fee"}

\* line 126
row_fiat(row) == row.coin = Fiat

\* lines 130-134 without the assert
CoinMismatch_Never(ct, row) == FALSE

\* lines 127-134: the assert same_coin_check fails
CoinMismatch(ct, row) ==
    /\ ~row_fiat(row)
    /\ ct.coin # NoCoin
    /\ ct.coin # row.coin

\* lines 127-129: the first coin-denominated row binds the coin
BindCoin(ct, row) ==
    IF ~row_fiat(row) /\ ct.coin = NoCoin
    THEN [ct EXCEPT !.coin = row.coin]
    ELSE ct

\* r['act'].startswith('withdraw')
IsWithdrawLike(r) == r.act \in {"withdraw", "withdrawal_fee"}

\* lines 137-140: the rows of data_rows[ind:] kept by the comprehension
RECURSIVE next_w(_, _, _)
next_w(rows, from, row) ==
    IF from > Len(rows) THEN <<>>
    ELSE IF IsWithdrawLike(rows[from]) /\ rows[from].coin = row.coin
         THEN <<rows[from]>> \o next_w(rows, from + 1, row)
         ELSE next_w(rows, from + 1, row)

\* lines 136-148
Lookahead(ct, row, rows, i) ==
    IF ct.coin # NoCoin
    THEN LET nw == next_w(rows, i + 1, row) IN
         IF Len(nw) > 0
         THEN [ct EXCEPT
                 !.next_withdrawal_fee =
                     IF Len(nw) > 1 THEN Abs(nw[2].value) ELSE 0,
                 !.next_withdrawal = Abs(nw[1].value)]
         ELSE ct
    ELSE ct

\* lines 153 and 157 with >= val_tol
ExceedsTol_Inclusive(row) ==
    IF row_fiat(row) THEN Abs(row.value) >= val_tol \div 1000000
    ELSE Abs(row.value) >= val_tol

\* abs(row['value']) > val_tol, the value being counted in the minor unit of
\* its currency: 9e-8 R$ is less than one hundredth of R$
ExceedsTol(row) ==
    IF row_fiat(row) THEN Abs(row.value) > val_tol \div 1000000
    ELSE Abs(row.value) > val_tol

\* line 160 without the assert
FiatBuyingFee_Never(row) == FALSE

\* line 160: the assert not row_fiat fails
FiatBuyingFee(row) == row.act = "buying_fee" /\ row_fiat(row)

\* lines 150-161 without abs()
UpdateTransaction_Signed(ct, row) ==
    IF row.act = "buy"
    THEN IF row_fiat(row)
         THEN [ct EXCEPT !.paid_value = @ + row.value,
                         !.n_fiat = IF ExceedsTol(row) THEN @ + 1 ELSE @]
         ELSE [ct EXCEPT !.value = @ + row.value,
                         !.n_coin = IF ExceedsTol(row) THEN @ + 1 ELSE @]
    ELSE IF row.act = "buying_fee"
         THEN [ct EXCEPT !.buying_fee = @ + row.value]
         ELSE ct

\* lines 150-161
UpdateTransaction(ct, row) ==
    IF row.act = "buy"
    THEN IF row_fiat(row)
         THEN [ct EXCEPT !.paid_value = @ + Abs(row.value),
                         !.n_fiat = IF ExceedsTol(row) THEN @ + 1 ELSE @]
         ELSE [ct EXCEPT !.value = @ + Abs(row.value),
                         !.n_coin = IF ExceedsTol(row) THEN @ + 1 ELSE @]
    ELSE IF row.act = "buying_fee"
         THEN [ct EXCEPT !.buying_fee = @ + Abs(row.value)]
         ELSE ct

\* line 120 and line 163: next_row.get('dttm') is None after the last row
LastOfDttm(rows, i) ==
    IF i + 1 < Len(rows) THEN rows[i + 1].dttm # rows[i + 2].dttm ELSE TRUE

\* lines 163-166 without same_dttm
Finished_AnyRow(ct, rows, i) ==
    /\ ct.n_coin > 0
    /\ ct.n_coin = ct.n_fiat

\* lines 163-166 without match_ops
Finished_Unmatched(ct, rows, i) ==
    /\ LastOfDttm(rows, i)
    /\ ct.n_coin > 0

\* lines 163-166
Finished(ct, rows, i) ==
    /\ LastOfDttm(rows, i)
    /\ ct.n_coin > 0
    /\ ct.n_coin = ct.n_fiat

\* line 170: float division by 0.0 raises ZeroDivisionError
ZeroDivision(ct) == ct.next_withdrawal_fee # 0 /\ ct.next_withdrawal = 0

\* lines 167-173 with withd = withd_mult
CloseTransaction_Unscaled(ct, row) ==
    [ct EXCEPT
       !.dttm = row.dttm,
       !.withd = IF ct.next_withdrawal_fee # 0
                 THEN Frac(ct.next_withdrawal_fee, ct.next_withdrawal)
                 ELSE ZeroFrac]

\* lines 167-173
CloseTransaction(ct, row) ==
    [ct EXCEPT
       !.dttm = row.dttm,
       !.withd = IF ct.next_withdrawal_fee # 0
                 THEN FracTimes(ct.value,
                                Frac(ct.next_withdrawal_fee, ct.next_withdrawal))
                 ELSE ZeroFrac]

\* lines 92-106; the pair f"{coin}BRL" is kept as the two parts
prepare_transaction_doc(t) ==
    [source |-> "btctrd",
     datetime |-> t.dttm,
     pair |-> <<t.coin, "BRL">>,
     ticker |-> t.coin,
     qty |-> t.value,
     total |-> t.paid_value,
     total_ticker |-> "BRL",
     fee |-> t.buying_fee,
     fee_ticker |-> t.coin,
     mov_fee |-> t.withd,
     mov_ticker |-> t.coin]

(***************************************************************************)
(* The ledger parser, lines 18-89.  A csv data row is the tuple            *)
(* <<Data, Moeda, Categoria, Valor, Saldo>>: Data the local instant,       *)
(* Categoria the text as <<leading phrase, rest>>, Valor and Saldo the     *)
(* text as <<currency token, number>> ('BTC 0,01000000').                  *)
(***************************************************************************)
\* line 63
expected_cols == <<"Data", "Moeda", "Categoria", "Valor", "Saldo após">>

\* lines 18-23: America/Sao_Paulo to UTC, three hours later (no DST change
\* within the modelled instants)
parse_sp_dttm(dttm) == dttm + 3

\* x.upper() on the currency names of the model
upper(x) == CASE x = "eth" -> "ETH" [] OTHER -> x

\* lines 68 and 71: coin_map.get(x, x.upper())
coin_map(x) ==
    CASE x = "Bitcoin" -> "BTC"
      [] x = "Real" -> "R$"
      [] OTHER -> upper(x)

\* lines 35-42
re_groups ==
    << <<"^Compra$", "buy">>, <<"^Depósito", "deposit">>,
       <<"^Retirada para", "withdraw">>, <<"^Taxa de mineração", "withdrawal_fee">>,
       <<"^Taxa sobre compra", "buying_fee">>, <<"^Venda", "sell">> >>

\* re.match(regex, val) for the patterns of re_groups: '^Compra$' wants the
\* whole text, the others a leading phrase
re_match(regex, val) ==
    CASE regex = "^Compra$" -> val = <<"Compra", "">>
      [] regex = "^Depósito" -> val[1] = "Depósito"
      [] regex = "^Retirada para" -> val[1] = "Retirada para"
      [] regex = "^Taxa de mineração" -> val[1] = "Taxa de mineração"
      [] regex = "^Taxa sobre compra" -> val[1] = "Taxa sobre compra"
      [] regex = "^Venda" -> val[1] = "Venda"

\* lines 43-46: res, as the set of the categories appended
act_matches(val) ==
    {re_groups[k][2] : k \in {m \in 1..Len(re_groups) : re_match(re_groups[m][1], val)}}

\* lines 47-48: defined when the assert len(res) == 1 holds
parse_btctrd_act_category(val) == CHOOSE a \in act_matches(val) : TRUE

\* lines 77-81: the value and balance texts are kept until line 87
parse_row(row) ==
    [dttm |-> parse_sp_dttm(row[1]),
     coin |-> coin_map(row[2]),
     act |-> parse_btctrd_act_category(row[3]),
     value |-> row[4],
     balance |-> row[5]]

\* lines 51-57: float() of the text left once 'coin ' is removed
parse_btctrd_values(row_doc) ==
    [row_doc EXCEPT !.value = row_doc.value[2], !.balance = row_doc.balance[2]]

\* line 47: the assert fails on a data row
UnexpectedAction(rows_list) ==
    \E i \in 2..Len(rows_list) : Cardinality(act_matches(rows_list[i][3])) # 1

\* lines 83-85: r['value'].count(r['coin']) == 1 fails on a row
UnmatchingCoin(rows_list) ==
    \E i \in 2..Len(rows_list) : rows_list[i][4][1] # coin_map(rows_list[i][2])

\* line 56: float() raises ValueError on a balance text that keeps its token
BadBalance(rows_list) ==
    \E i \in 2..Len(rows_list) : rows_list[i][5][1] # coin_map(rows_list[i][2])

\* lines 76-89: the rows are parsed and returned in the order of the file
parse_btctrd_data(rows_list) ==
    [i \in 1..(Len(rows_list) - 1) |->
        parse_btctrd_values(parse_row(rows_list[i + 1]))]

(***************************************************************************)
(* Inputs.                                                                 *)
(***************************************************************************)
\* <<act, coin, value>> of the rows of the bounded family
RowKinds ==
    {<<"buy", "BTC", 5>>, <<"buy", "BTC", 9>>, <<"buy", "BTC", -20>>,
     <<"buy", "ETH", -20>>,
     <<"buy", "R$", 0>>, <<"buy", "R$", 300>>,
     <<"buying_fee", "BTC", 1>>, <<"buying_fee", "ETH", 1>>,
     <<"buying_fee", "R$", 1>>,
     <<"deposit", "R$", 7>>, <<"sell", "BTC", 7>>,
     <<"withdraw", "BTC", 0>>, <<"withdraw", "BTC", -40>>,
     <<"withdraw", "R$", 70>>,
     <<"withdrawal_fee", "BTC", 2>>, <<"withdrawal_fee", "R$", 3>>}

RowDomain ==
    {[dttm |-> t, act |-> k[1], coin |-> k[2], value |-> k[3]] :
        t \in 1..MaxTime, k \in RowKinds}

\* the sequences of at most n rows that are ordered by the sort key
RECURSIVE SortedSeqs(_)
SortedSeqs(n) ==
    IF n = 0 THEN {<<>>}
    ELSE LET shorter == SortedSeqs(n - 1) IN
         shorter \cup
         {Append(s, r) : <<s, r>> \in
             {p \in shorter \X RowDomain :
                 /\ Len(p[1]) = n - 1
                 /\ p[1] # <<>> => KeyLeq(SortKey(p[1][Len(p[1])]), SortKey(p[2]))}}

\* the example stream of the specification, 10:00 = 1 and 10:05 = 2:
\* BTC buy 0.01, R$ buy 500.0, BTC buying_fee 0.00005,
\* BTC withdraw 0.01, BTC withdrawal_fee 0.0001
ExampleRows ==
    << [dttm |-> 1, act |-> "buy", coin |-> "BTC", value |-> 1000000],
       [dttm |-> 1, act |-> "buy", coin |-> "R$", value |-> 50000],
       [dttm |-> 1, act |-> "buying_fee", coin |-> "BTC", value |-> 5000],
       [dttm |-> 2, act |-> "withdraw", coin |-> "BTC", value |-> 1000000],
       [dttm |-> 2, act |-> "withdrawal_fee", coin |-> "BTC", value |-> 10000] >>

\* the example stream in every row order
ExampleInputs ==
    {[i \in 1..Len(ExampleRows) |-> ExampleRows[p[i]]] :
        p \in {f \in [1..Len(ExampleRows) -> 1..Len(ExampleRows)] :
                  \A i, j \in 1..Len(ExampleRows) : i # j => f[i] # f[j]}}

\* the example stream with any of its magnitudes replaced by 0
ExampleVariants ==
    {[i \in 1..Len(ExampleRows) |->
         IF i \in Z THEN [ExampleRows[i] EXCEPT !.value = 0] ELSE ExampleRows[i]] :
        Z \in SUBSET (1..Len(ExampleRows))}

Inputs == SortedSeqs(MaxLen) \cup ExampleInputs \cup ExampleVariants

\* the csv data rows of the pipeline runs: a coin buy and its fiat leg at
\* 10:00, two withdrawals of the same minute and a mining fee, a deposit, a
\* category text no pattern matches, and a value in another currency than
\* the row's
RawRows ==
    {<<1, "Bitcoin", <<"Compra", "">>, <<"BTC", 20>>, <<"BTC", 20>> >>,
     <<1, "Real", <<"Compra", "">>, <<"R$", -300>>, <<"R$", 0>> >>,
     <<2, "Bitcoin", <<"Retirada para", " carteira">>, <<"BTC", -40>>, <<"BTC", 0>> >>,
     <<2, "Bitcoin", <<"Retirada para", " carteira">>, <<"BTC", -10>>, <<"BTC", 0>> >>,
     <<2, "Bitcoin", <<"Taxa de mineração", "">>, <<"BTC", -2>>, <<"BTC", 0>> >>,
     <<2, "Real", <<"Depósito", " bancário">>, <<"R$", 7>>, <<"R$", 7>> >>,
     <<1, "Bitcoin", <<"Compra", " cancelada">>, <<"BTC", 20>>, <<"BTC", 0>> >>,
     <<1, "eth", <<"Taxa sobre compra", "">>, <<"BTC", 1>>, <<"ETH", 0>> >>}

\* the sequences of at most n csv data rows, in any order
RECURSIVE RawSeqs(_)
RawSeqs(n) ==
    IF n = 0 THEN {<<>>}
    ELSE LET shorter == RawSeqs(n - 1) IN
         shorter \cup
         {Append(p[1], p[2]) : p \in {q \in shorter \X RawRows : Len(q[1]) = n - 1}}

\* a file with the expected header, or a file with other column names
RawInputs ==
    {<<expected_cols>> \o d : d \in RawSeqs(MaxRaw)}
    \cup {<< <<"Data", "Moeda", "Categoria", "Valor", "Saldo">> >> \o d :
             d \in RawSeqs(1)}

(***************************************************************************)
(* The state machine: one call of get_transactions_from_btctrd.            *)
(* open_rows and hist are history variables: the positions (0-based, as    *)
(* ind) of the rows accumulated into the open group, and for every         *)
(* appended group its rows and the position of its closing row.            *)
(***************************************************************************)
Init ==
    /\ btctrd_rows_raw = <<>>
    /\ input_rows \in Inputs
    /\ data_rows = input_rows
    /\ ind = 0
    /\ curr_trans = EmptyTransaction
    /\ all_trans = <<>>
    /\ final_transacs = <<>>
    /\ pc = "sort"
    /\ err = "none"
    /\ open_rows = {}
    /\ hist = <<>>

\* line 112
SortRows ==
    /\ pc = "sort"
    /\ data_rows' = sorted(data_rows)
    /\ pc' = "loop"
    /\ UNCHANGED <<btctrd_rows_raw, input_rows, ind, curr_trans, all_trans,
                   final_transacs, err, open_rows, hist>>

\* an exception leaves the function: rows is the open group at that point
Raise(ct, rows, e) ==
    /\ curr_trans' = ct
    /\ open_rows' = rows
    /\ pc' = "raised"
    /\ err' = e
    /\ UNCHANGED <<ind, all_trans, hist>>

\* lines 117-175: one iteration of the loop
ProcessRow ==
    /\ pc = "loop"
    /\ ind < Len(data_rows)
    /\ LET row == data_rows[ind + 1] IN
       IF ~IsPurchase(row)
       THEN /\ ind' = ind + 1
            /\ UNCHANGED <<curr_trans, all_trans, pc, err, open_rows, hist>>
       ELSE IF CoinMismatch(curr_trans, row)
       THEN Raise(curr_trans, open_rows, "coin_mismatch")
       ELSE LET bound == BindCoin(curr_trans, row)
                looked == Lookahead(bound, row, data_rows, ind)
            IN IF FiatBuyingFee(row)
               THEN Raise(looked, open_rows, "fiat_buying_fee")
               ELSE LET ct == UpdateTransaction(looked, row) IN
                    IF Finished(ct, data_rows, ind)
                    THEN IF ZeroDivision(ct)
                         THEN Raise([ct EXCEPT !.dttm = row.dttm],
                                    open_rows \cup {ind}, "zero_division")
                         ELSE /\ all_trans' = Append(all_trans, CloseTransaction(ct, row))
                              /\ curr_trans' = EmptyTransaction
                              /\ hist' = Append(hist, [rows |-> open_rows \cup {ind},
                                                       closed_at |-> ind])
                              /\ open_rows' = {}
                              /\ ind' = ind + 1
                              /\ UNCHANGED <<pc, err>>
                    ELSE /\ curr_trans' = ct
                         /\ open_rows' = open_rows \cup {ind}
                         /\ ind' = ind + 1
                         /\ UNCHANGED <<all_trans, pc, err, hist>>
    /\ UNCHANGED <<btctrd_rows_raw, input_rows, data_rows, final_transacs>>

\* lines 176-180
Transform ==
    /\ pc = "loop"
    /\ ind = Len(data_rows)
    /\ final_transacs' = [k \in 1..Len(all_trans) |-> prepare_transaction_doc(all_trans[k])]
    /\ pc' = "done"
    /\ UNCHANGED <<btctrd_rows_raw, input_rows, data_rows, ind, curr_trans,
                   all_trans, err, open_rows, hist>>

Next == SortRows \/ ProcessRow \/ Transform

Spec == Init /\ [][Next]_vars

(***************************************************************************)
(* The engine as a function of its argument: the result of the run that    *)
(* SortRows, ProcessRow and Transform make on data_rows, as the record     *)
(* [err, out] of the exception raised ("none" on return) and the list      *)
(* returned.                                                               *)
(***************************************************************************)
Raised(e) == [err |-> e, out |-> <<>>]

\* lines 117-180: the loop from row ind on, then the transformation
RECURSIVE Pass(_, _, _, _)
Pass(rows, i, ct0, at) ==
    IF i = Len(rows)
    THEN [err |-> "none", out |-> [k \in 1..Len(at) |-> prepare_transaction_doc(at[k])]]
    ELSE LET row == rows[i + 1] IN
         IF ~IsPurchase(row) THEN Pass(rows, i + 1, ct0, at)
         ELSE IF CoinMismatch(ct0, row) THEN Raised("coin_mismatch")
         ELSE LET looked == Lookahead(BindCoin(ct0, row), row, rows, i) IN
              IF FiatBuyingFee(row) THEN Raised("fiat_buying_fee")
              ELSE LET ct == UpdateTransaction(looked, row) IN
                   IF Finished(ct, rows, i)
                   THEN IF ZeroDivision(ct) THEN Raised("zero_division")
                        ELSE Pass(rows, i + 1, EmptyTransaction,
                                  Append(at, CloseTransaction(ct, row)))
                   ELSE Pass(rows, i + 1, ct, at)

\* lines 109-180
get_transactions_from_btctrd(rows) == Pass(sorted(rows), 0, EmptyTransaction, <<>>)

(***************************************************************************)
(* The pipeline of process_btctrd_data, lines 190-192: the rows read from  *)
(* the csv file are parsed and the parsed rows are reconciled.             *)
(***************************************************************************)
PipelineInit ==
    /\ btctrd_rows_raw \in RawInputs
    /\ input_rows = <<>>
    /\ data_rows = <<>>
    /\ ind = 0
    /\ curr_trans = EmptyTransaction
    /\ all_trans = <<>>
    /\ final_transacs = <<>>
    /\ pc = "parse"
    /\ err = "none"
    /\ open_rows = {}
    /\ hist = <<>>

ParseErrors == {"schema_mismatch", "unexpected_action", "unmatching_coin",
                "value_error"}

\* line 191: parse_btctrd_data, lines 60-89; its result is the argument of
\* get_transactions_from_btctrd
ParseRows ==
    /\ pc = "parse"
    /\ LET fail ==
             IF btctrd_rows_raw[1] # expected_cols THEN "schema_mismatch"
             ELSE IF UnexpectedAction(btctrd_rows_raw) THEN "unexpected_action"
             ELSE IF UnmatchingCoin(btctrd_rows_raw) THEN "unmatching_coin"
             ELSE IF BadBalance(btctrd_rows_raw) THEN "value_error"
             ELSE "none"
       IN IF fail # "none"
          THEN /\ pc' = "raised"
               /\ err' = fail
               /\ UNCHANGED <<input_rows, data_rows>>
          ELSE /\ input_rows' = parse_btctrd_data(btctrd_rows_raw)
               /\ data_rows' = parse_btctrd_data(btctrd_rows_raw)
               /\ pc' = "sort"
               /\ err' = err
    /\ UNCHANGED <<btctrd_rows_raw, ind, curr_trans, all_trans, final_transacs,
                   open_rows, hist>>

PipelineNext == ParseRows \/ SortRows \/ ProcessRow \/ Transform

PipelineSpec == PipelineInit /\ [][PipelineNext]_vars

TypeOK ==
    /\ pc \in {"parse", "sort", "loop", "done", "raised"}
    /\ err \in {"none", "coin_mismatch", "fiat_buying_fee", "zero_division"}
                \cup ParseErrors
    /\ ind \in 0..Len(data_rows)
    /\ Len(all_trans) = Len(hist)
    /\ curr_trans.n_coin \in Nat /\ curr_trans.n_fiat \in Nat
(***************************************************************************)
(* Vocabulary of the properties.  Positions are 0-based, as ind.           *)
(***************************************************************************)
RowAt(i) == data_rows[i + 1]

Processed == {i \in 0..(Len(data_rows) - 1) : i < ind}

PurchaseRows(S) == {i \in S : RowAt(i).act \in {"buy", "buying_fee"}}

CoinBuys(S) == {i \in S : RowAt(i).act = "buy" /\ RowAt(i).coin # "R$"}

FiatBuys(S) == {i \in S : RowAt(i).act = "buy" /\ RowAt(i).coin = "R$"}

BuyingFees(S) == {i \in S : RowAt(i).act = "buying_fee"}

CoinSide(S) == {i \in PurchaseRows(S) : RowAt(i).coin # "R$"}

RECURSIVE SumMag(_)
SumMag(S) ==
    IF S = {} THEN 0
    ELSE LET i == CHOOSE x \in S : TRUE IN Abs(RowAt(i).value) + SumMag(S \ {i})

\* row i is the last row of its timestamp-group
EndsTimestamp(i) ==
    i + 1 = Len(data_rows) \/ RowAt(i).dttm # RowAt(i + 1).dttm

Running == pc \in {"loop", "done"}

(***************************************************************************)
(* C1: boundary completeness.  After any row has been processed, whatever  *)
(* its category, an open group whose fill counts match (and are at least   *)
(* one) does not survive the end of that row's timestamp-group.            *)
(* Violated: a matched group followed by a non-purchase row of the same    *)
(* timestamp is never closed, the boundary test of lines 162-175 being     *)
(* skipped by the continue of line 124.                                    *)
(***************************************************************************)
C1_BoundaryComplete ==
    (Running /\ ind >= 1 /\ EndsTimestamp(ind - 1)) =>
        ~(curr_trans.n_coin >= 1 /\ curr_trans.n_coin = curr_trans.n_fiat)

(***************************************************************************)
(* C2: at closure the implied withdrawal amount is the magnitude of the    *)
(* first withdraw row of the bound coin at or after the closing row, and 0 *)
(* when there is none.                                                     *)
(* Violated: line 139 filters on the coin of the current row, so a fiat    *)
(* row looks up fiat withdrawals, and a lookup that finds nothing keeps    *)
(* the result of an earlier position.                                      *)
(***************************************************************************)
FirstWithdrawMagnitude(from, coin) ==
    LET J == {j \in from..(Len(data_rows) - 1) :
                 RowAt(j).act = "withdraw" /\ RowAt(j).coin = coin}
    IN IF J = {} THEN 0
       ELSE Abs(RowAt(CHOOSE j \in J : \A m \in J : j <= m).value)

C2_LookaheadBoundCoin ==
    \A k \in 1..Len(all_trans) :
        all_trans[k].next_withdrawal =
            FirstWithdrawMagnitude(hist[k].closed_at, all_trans[k].coin)

(***************************************************************************)
(* C3: in every state the recorded implied withdrawal fee is 0 or the      *)
(* magnitude of a withdrawal_fee row of the bound coin that immediately    *)
(* follows a withdraw row of the bound coin.                               *)
(* Violated: lines 137-144 take the second row whose category starts with  *)
(* 'withdraw', which may be a second withdraw row or a distant row.        *)
(***************************************************************************)
AdjacentFeeMagnitudes(coin) ==
    {Abs(RowAt(j + 1).value) : j \in
        {m \in 0..(Len(data_rows) - 2) :
            /\ RowAt(m).act = "withdraw" /\ RowAt(m).coin = coin
            /\ RowAt(m + 1).act = "withdrawal_fee" /\ RowAt(m + 1).coin = coin}}

C3_FeeIsAdjacentWithdrawalFee ==
    /\ curr_trans.next_withdrawal_fee
           \in {0} \cup AdjacentFeeMagnitudes(curr_trans.coin)
    /\ \A k \in 1..Len(all_trans) :
           all_trans[k].next_withdrawal_fee
               \in {0} \cup AdjacentFeeMagnitudes(all_trans[k].coin)
(***************************************************************************)
(* C4: conservation.  Every emitted transaction has qty equal to the sum   *)
(* of the magnitudes of the coin-denominated buy rows accumulated into its *)
(* group, total equal to that of its fiat-denominated buy rows, and fee    *)
(* equal to that of its buying_fee rows.                                   *)
(***************************************************************************)
C4_Conservation ==
    /\ \A k \in 1..Len(all_trans) :
          /\ all_trans[k].value = SumMag(CoinBuys(hist[k].rows))
          /\ all_trans[k].paid_value = SumMag(FiatBuys(hist[k].rows))
          /\ all_trans[k].buying_fee = SumMag(BuyingFees(hist[k].rows))
    /\ \A k \in 1..Len(final_transacs) :
          /\ final_transacs[k].qty = SumMag(CoinBuys(hist[k].rows))
          /\ final_transacs[k].total = SumMag(FiatBuys(hist[k].rows))
          /\ final_transacs[k].fee = SumMag(BuyingFees(hist[k].rows))

C4_Witness ==
    /\ pc = "done"
    /\ \E k \in 1..Len(final_transacs) :
          /\ Cardinality(CoinBuys(hist[k].rows)) >= 2
          /\ FiatBuys(hist[k].rows) # {}
          /\ \E i \in hist[k].rows : RowAt(i).value < 0

(***************************************************************************)
(* C5: exhaustive partition.  At every point of a run that has not         *)
(* aborted, the groups emitted so far and the open group are pairwise      *)
(* disjoint and together hold exactly the buy and buying_fee rows          *)
(* processed so far; their amounts add up to those of these rows; every    *)
(* emitted group is non-empty and gives exactly one output record.         *)
(***************************************************************************)
Groups == {hist[k].rows : k \in 1..Len(hist)} \cup {open_rows}

RECURSIVE SumField(_, _)
SumField(ts, f) ==
    IF ts = <<>> THEN 0
    ELSE ts[Len(ts)][f] + SumField(SubSeq(ts, 1, Len(ts) - 1), f)

C5_ExhaustivePartition ==
    Running =>
        /\ UNION Groups = PurchaseRows(Processed)
        /\ \A k1, k2 \in 1..Len(hist) :
              k1 # k2 => hist[k1].rows \cap hist[k2].rows = {}
        /\ \A k \in 1..Len(hist) :
              hist[k].rows # {} /\ hist[k].rows \cap open_rows = {}
        /\ SumField(all_trans, "value") + curr_trans.value
              = SumMag(CoinBuys(Processed))
        /\ SumField(all_trans, "paid_value") + curr_trans.paid_value
              = SumMag(FiatBuys(Processed))
        /\ SumField(all_trans, "buying_fee") + curr_trans.buying_fee
              = SumMag(BuyingFees(Processed))
        /\ pc = "done" => Len(final_transacs) = Len(hist)

C5_Witness ==
    /\ pc = "done"
    /\ Len(final_transacs) >= 1
    /\ open_rows # {}
    /\ BuyingFees(Processed) # {}

(***************************************************************************)
(* C6: boundary soundness.  Every emitted group holds exactly the buy and  *)
(* buying_fee rows after the previous closing row up to its own closing    *)
(* row; at that row the number of its coin fills above tolerance is at     *)
(* least one and equals that of its fiat fills, and the next row has       *)
(* another timestamp.  The open group holds every buy and buying_fee row   *)
(* processed since the last closure, whatever their timestamps.            *)
(***************************************************************************)
Fills(S) == {i \in S : ExceedsTol(RowAt(i))}

PrevClosed(k) == IF k = 1 THEN -1 ELSE hist[k - 1].closed_at

LastClosed == IF hist = <<>> THEN -1 ELSE hist[Len(hist)].closed_at

C6_BoundarySoundness ==
    /\ \A k \in 1..Len(hist) :
          /\ hist[k].rows = PurchaseRows({i \in Processed :
                                PrevClosed(k) < i /\ i <= hist[k].closed_at})
          /\ hist[k].closed_at \in hist[k].rows
          /\ Cardinality(Fills(CoinBuys(hist[k].rows))) >= 1
          /\ Cardinality(Fills(CoinBuys(hist[k].rows)))
                = Cardinality(Fills(FiatBuys(hist[k].rows)))
          /\ EndsTimestamp(hist[k].closed_at)
    /\ Running => open_rows = PurchaseRows({i \in Processed : LastClosed < i})

C6_Witness ==
    \E k \in 1..Len(hist) :
        \E i, j \in hist[k].rows :
            /\ RowAt(i).dttm # RowAt(j).dttm
            /\ i < j
            /\ EndsTimestamp(i)

(***************************************************************************)
(* C7: on closure mov_fee is coin_amount * (implied_withdrawal_fee /       *)
(* implied_withdrawal_amount) when a withdrawal fee was captured and 0     *)
(* otherwise; the example stream of the specification, in any row order,   *)
(* gives exactly one record, dated 10:00, with qty 0.01, total 500.0, fee  *)
(* 0.00005 and mov_fee 0.0001.                                             *)
(***************************************************************************)
C7_MovFee ==
    /\ \A k \in 1..Len(final_transacs) :
          final_transacs[k].mov_fee =
              IF all_trans[k].next_withdrawal_fee # 0
              THEN FracTimes(final_transacs[k].qty,
                             Frac(all_trans[k].next_withdrawal_fee,
                                  all_trans[k].next_withdrawal))
              ELSE <<0, 1>>
    /\ input_rows \in ExampleInputs =>
          /\ pc # "raised"
          /\ pc = "done" =>
                /\ Len(final_transacs) = 1
                /\ final_transacs[1].datetime = 1
                /\ final_transacs[1].ticker = "BTC"
                /\ final_transacs[1].qty = 1000000
                /\ final_transacs[1].total = 50000
                /\ final_transacs[1].fee = 5000
                /\ final_transacs[1].mov_fee = <<10000, 1>>

C7_Witness ==
    /\ pc = "done"
    /\ input_rows = ExampleRows
    /\ Len(final_transacs) = 1
    /\ all_trans[1].next_withdrawal_fee # 0

(***************************************************************************)
(* C8: coin purity.  The ticker of every emitted transaction is a bound,   *)
(* non-fiat coin and is the currency of every coin-denominated buy and     *)
(* buying_fee row of its group; the same holds of the open group, and the  *)
(* run aborts on a coin-denominated buy or buying_fee row that names       *)
(* another coin than the one bound.                                        *)
(***************************************************************************)
C8_CoinPurity ==
    /\ \A k \in 1..Len(all_trans) :
          /\ all_trans[k].coin \notin {"R$", NoCoin}
          /\ \A i \in CoinSide(hist[k].rows) : RowAt(i).coin = all_trans[k].coin
    /\ \A k \in 1..Len(final_transacs) :
          /\ final_transacs[k].ticker \notin {"R$", NoCoin}
          /\ \A i \in CoinSide(hist[k].rows) :
                RowAt(i).coin = final_transacs[k].ticker
    /\ \A i \in CoinSide(open_rows) : RowAt(i).coin = curr_trans.coin
    /\ err = "coin_mismatch" =>
          /\ pc = "raised"
          /\ ind \in CoinSide({ind})
          /\ CoinSide(open_rows) # {}
          /\ RowAt(ind).coin # curr_trans.coin

C8_Witness ==
    /\ pc = "done"
    /\ \E k \in 1..Len(final_transacs) :
          /\ final_transacs[k].ticker = "ETH"
          /\ Cardinality(CoinSide(hist[k].rows)) >= 2

(***************************************************************************)
(* C9: no partial output.  A run that has met a fiat-denominated           *)
(* buying_fee row, or a coin mismatch, is aborted and returns no record,   *)
(* whatever groups were closed before; the buying fee accumulated in the   *)
(* open group never includes a fiat-denominated fee.                       *)
(***************************************************************************)
FiatFees(S) == {i \in BuyingFees(S) : RowAt(i).coin = "R$"}

C9_NoPartialOutput ==
    /\ pc = "raised" => final_transacs = <<>>
    /\ FiatFees(Processed) = {}
    /\ (pc # "sort" /\ ind < Len(data_rows) /\ FiatFees({ind}) # {}) =>
          pc = "loop" \/ err = "fiat_buying_fee"
    /\ pc = "done" => FiatFees(0..(Len(data_rows) - 1)) = {}
    /\ curr_trans.buying_fee = SumMag(BuyingFees(open_rows) \ FiatFees(open_rows))
    /\ \A G \in Groups : \A i, j \in CoinSide(G) : RowAt(i).coin = RowAt(j).coin

C9_Witness ==
    /\ pc = "raised"
    /\ err = "fiat_buying_fee"
    /\ Len(all_trans) >= 1
    /\ final_transacs = <<>>

(***************************************************************************)
(* C10: end of stream.  A group still open when the last row has been      *)
(* processed gives no record and no error: the run is done with one        *)
(* record per closed group.  A stream of a single buy row never raises     *)
(* and returns no record.                                                  *)
(***************************************************************************)
C10_EndOfStreamDrop ==
    /\ (Len(data_rows) = 1 /\ data_rows[1].act = "buy") =>
          pc # "raised" /\ final_transacs = <<>>
    /\ pc = "raised" => ind < Len(data_rows)
    /\ pc = "done" =>
          /\ err = "none"
          /\ Len(final_transacs) = Len(hist)
          /\ \A k \in 1..Len(final_transacs) :
                /\ hist[k].rows \cap open_rows = {}
                /\ final_transacs[k].datetime = RowAt(hist[k].closed_at).dttm

C10_Witness ==
    /\ pc = "done"
    /\ Len(data_rows) = 1
    /\ data_rows[1].act = "buy"
    /\ data_rows[1].coin # "R$"
    /\ ExceedsTol(data_rows[1])
    /\ open_rows = {0}
    /\ final_transacs = <<>>
(***************************************************************************)
(* C12: skipped categories are inert.  The step that processes a deposit,  *)
(* sell, withdraw or withdrawal_fee row never raises and leaves the open   *)
(* group's accumulator and the emitted transactions unchanged; it only     *)
(* moves to the next row.                                                  *)
(***************************************************************************)
SkippedActs == {"deposit", "sell", "withdraw", "withdrawal_fee"}

C12_SkippedInert ==
    [][(pc = "loop" /\ ind < Len(data_rows) /\ RowAt(ind).act \in SkippedActs) =>
          /\ pc' = "loop"
          /\ err' = err
          /\ ind' = ind + 1
          /\ curr_trans' = curr_trans
          /\ all_trans' = all_trans]_vars

C12_Witness ==
    /\ pc = "loop"
    /\ ind >= 1
    /\ RowAt(ind - 1).act \in {"withdraw", "withdrawal_fee"}
    /\ RowAt(ind - 1).coin = curr_trans.coin
    /\ open_rows # {}
    /\ curr_trans.n_coin >= 1

(***************************************************************************)
(* C13: tolerance.  Every buy row adds its magnitude to the amount of its  *)
(* side, and the fill count of a side is the number of its buy rows whose  *)
(* magnitude is strictly above tolerance (9e-8: 9 units of a coin, less    *)
(* than one unit of R$).  Every emitted group has a coin buy above         *)
(* tolerance.                                                              *)
(***************************************************************************)
AboveTol(S) ==
    {i \in S : IF RowAt(i).coin = "R$" THEN Abs(RowAt(i).value) >= 1
               ELSE Abs(RowAt(i).value) > val_tol}

C13_Tolerance ==
    /\ curr_trans.n_coin = Cardinality(AboveTol(CoinBuys(open_rows)))
    /\ curr_trans.n_fiat = Cardinality(AboveTol(FiatBuys(open_rows)))
    /\ curr_trans.value = SumMag(CoinBuys(open_rows))
    /\ curr_trans.paid_value = SumMag(FiatBuys(open_rows))
    /\ \A k \in 1..Len(all_trans) :
          /\ all_trans[k].n_coin = Cardinality(AboveTol(CoinBuys(hist[k].rows)))
          /\ all_trans[k].n_fiat = Cardinality(AboveTol(FiatBuys(hist[k].rows)))
          /\ all_trans[k].value = SumMag(CoinBuys(hist[k].rows))
          /\ AboveTol(CoinBuys(hist[k].rows)) # {}

C13_Witness ==
    /\ pc = "done"
    /\ \E k \in 1..Len(final_transacs) :
          /\ \E i \in CoinBuys(hist[k].rows) : Abs(RowAt(i).value) = val_tol
          /\ final_transacs[k].qty > val_tol
          /\ all_trans[k].n_coin = 1
          /\ Cardinality(CoinBuys(hist[k].rows)) = 2

(***************************************************************************)
(* C14: a run fails only by a coin mismatch or by a fiat-denominated       *)
(* buying fee.                                                             *)
(* Violated: with a captured fee and a withdrawal magnitude of 0 the       *)
(* division of line 170 raises ZeroDivisionError.                          *)
(***************************************************************************)
C14_OnlyDeclaredFailures ==
    pc = "raised" => err \in {"coin_mismatch", "fiat_buying_fee"}

(***************************************************************************)
(* C11.  Vocabulary: a sequence of events is key-sorted when the keys      *)
(* (dttm, act, coin) never decrease along it; two sequences hold the same  *)
(* events when one is a rearrangement of the other.                        *)
(***************************************************************************)
KeySorted(s) ==
    \A i \in 1..(Len(s) - 1) : KeyLeq(SortKey(s[i]), SortKey(s[i + 1]))

SameEvents(s, t) ==
    /\ Len(s) = Len(t)
    /\ \A x \in {s[i] : i \in 1..Len(s)} :
          Cardinality({i \in 1..Len(s) : s[i] = x})
              = Cardinality({i \in 1..Len(t) : t[i] = x})

Parsed == pc # "parse" /\ err \notin ParseErrors

Rearrangements(s) ==
    {[i \in 1..Len(s) |-> s[f[i]]] : f \in Permutations(1..Len(s))}

EqualTies(s) ==
    \A i, j \in 1..Len(s) : SortKey(s[i]) = SortKey(s[j]) => s[i] = s[j]

\* C15 as stated: the engine returns the same records for any two lists that
\* are rearrangements of the same events, events that share a key but differ
\* in value included.  The sort of line 112 is stable and orders by the key
\* only, so such events reach the lookahead in the order of the input.
C15_OrderIndependent ==
    pc = "sort" =>
        \A q \in Rearrangements(input_rows) :
            get_transactions_from_btctrd(q) = get_transactions_from_btctrd(input_rows)

\* C15, amended: the engine returns the same records, or raises the same
\* exception, for any two lists that are rearrangements of the same events,
\* provided the events that share a key are equal; and the run on the list
\* ends as the function says.
C15_OrderIndependentEqualTies ==
    /\ (pc = "sort" /\ EqualTies(input_rows)) =>
          \A q \in Rearrangements(input_rows) :
              get_transactions_from_btctrd(q) = get_transactions_from_btctrd(input_rows)
    /\ pc = "done" =>
          get_transactions_from_btctrd(input_rows) = [err |-> "none", out |-> final_transacs]
    /\ (pc = "raised" /\ err \notin ParseErrors) =>
          get_transactions_from_btctrd(input_rows).err = err

\* the run on an unsorted list with two equal events of the same key has
\* returned a record whose mov_fee comes from them
C15_Witness ==
    /\ pc = "done"
    /\ ~KeySorted(input_rows)
    /\ \E i, j \in 1..Len(input_rows) :
          i < j /\ input_rows[i] = input_rows[j] /\ input_rows[i].act = "withdraw"
    /\ Len(final_transacs) = 1
    /\ final_transacs[1].mov_fee # ZeroFrac
====
